---- MODULE Spec2Model ----
(***************************************************************************)
(* A model of the KPK in-place repack tool (src/kpk_repack.py).            *)
(*                                                                         *)
(* The archive file is a sequence of bytes (0..255).  Text (str) is a      *)
(* sequence of code points; bytes objects are sequences of byte values.    *)
(* patch() is modelled as a state machine whose program counter pc walks   *)
(* through the function; the loops of the compaction pass and of the       *)
(* append pass take one step per iteration.                                *)
(***************************************************************************)
EXTENDS Integers, Sequences, FiniteSets, TLC

(***************************************************************************)
(* Bounds of the model.                                                     *)
(***************************************************************************)
MaxEntries == 3      \* entries in the archive a run starts from
MaxRuns    == 2      \* consecutive invocations of patch()
MaxCut     == 3      \* bytes that may be missing at the end of a damaged archive
SmallChunk == 7      \* a copy window smaller than every record
MaxRecords    == 3   \* records of the file a lone compaction pass walks
MaxRecordSize == 4   \* bytes of such a record
MaxWindow     == 3   \* copy window of a lone compaction pass

(***************************************************************************)
(* Generic helpers on sequences.                                            *)
(***************************************************************************)
Min(a, b) == IF a < b THEN a ELSE b

Zeros(n) == [k \in 1..n |-> 0]

RECURSIVE Cat(_)
Cat(ss) == IF ss = <<>> THEN <<>> ELSE Head(ss) \o Cat(Tail(ss))

StartsWith(s, p) == Len(p) <= Len(s) /\ SubSeq(s, 1, Len(p)) = p

EndsWith(s, p) == Len(p) <= Len(s) /\ SubSeq(s, Len(s) - Len(p) + 1, Len(s)) = p

\* Python's ordering of str: lexicographic by code point.
RECURSIVE LexLess(_, _)
LexLess(a, b) ==
    IF a = <<>> THEN b # <<>>
    ELSE IF b = <<>> THEN FALSE
    ELSE IF Head(a) # Head(b) THEN Head(a) < Head(b)
    ELSE LexLess(Tail(a), Tail(b))

\* sorted(S) for a set of str.
RECURSIVE Sorted(_)
Sorted(S) ==
    IF S = {} THEN <<>>
    ELSE LET m == CHOOSE x \in S : \A y \in S \ {x} : LexLess(x, y)
         IN  <<m>> \o Sorted(S \ {m})

SeqToSet(s) == {s[k] : k \in 1..Len(s)}

(***************************************************************************)
(* Program constants.                                                       *)
(***************************************************************************)
BACKSLASH == 92

DATA == <<100, 97, 116, 97>>        \* "data"
FONT == <<102, 111, 110, 116>>      \* "font"
IMAGE == <<105, 109, 97, 103, 101>> \* "image"

PATCH_FOLDERS == <<DATA, FONT>>

\* b'KinoArchive\x01\x00'
SIG == <<75, 105, 110, 111, 65, 114, 99, 104, 105, 118, 101, 1, 0>>
SIG_LEN == Len(SIG)
HDR_LEN == 23
CHUNK_SIZE == 8 * 1024 * 1024

(***************************************************************************)
(* Byte-level conversions.                                                  *)
(***************************************************************************)
\* struct.pack('<H' / '<Q' / '<I', n): n as w little-endian bytes.
RECURSIVE PackLE(_, _)
PackLE(n, w) == IF w = 0 THEN <<>> ELSE <<n % 256>> \o PackLE(n \div 256, w - 1)

\* struct.unpack of a little-endian unsigned field.
RECURSIVE UnpackLE(_)
UnpackLE(bs) == IF bs = <<>> THEN 0 ELSE Head(bs) + 256 * UnpackLE(Tail(bs))

\* str.encode('utf-8') of one code point (code points below 0x800).
Utf8Char(c) == IF c < 128 THEN <<c>> ELSE <<192 + (c \div 64), 128 + (c % 64)>>

RECURSIVE Utf8Encode(_)
Utf8Encode(s) == IF s = <<>> THEN <<>> ELSE Utf8Char(Head(s)) \o Utf8Encode(Tail(s))

\* bytes.decode('utf-8') (one- and two-byte sequences).
RECURSIVE Utf8Decode(_)
Utf8Decode(bs) ==
    IF bs = <<>> THEN <<>>
    ELSE IF Head(bs) < 128 THEN <<Head(bs)>> \o Utf8Decode(Tail(bs))
    ELSE <<(Head(bs) - 192) * 64 + (bs[2] - 128)>> \o Utf8Decode(Tail(Tail(bs)))

\* str.lower() on ASCII letters.
LowerChar(c) == IF c >= 65 /\ c <= 90 THEN c + 32 ELSE c

Lower(s) == [k \in 1..Len(s) |-> LowerChar(s[k])]

IsSpace(c) == c \in {32, 9, 10, 11, 12, 13}

\* str.strip()
RECURSIVE LStrip(_)
LStrip(s) == IF s # <<>> /\ IsSpace(Head(s)) THEN LStrip(Tail(s)) ELSE s

RECURSIVE RStrip(_)
RStrip(s) == IF s # <<>> /\ IsSpace(s[Len(s)]) THEN RStrip(SubSeq(s, 1, Len(s) - 1)) ELSE s

Strip(s) == RStrip(LStrip(s))

\* Exclusive or of two naturals below 2^w.
RECURSIVE XorBits(_, _, _)
XorBits(a, b, w) ==
    IF w = 0 THEN 0
    ELSE ((a + b) % 2) + 2 * XorBits(a \div 2, b \div 2, w - 1)

\* zlib.crc32: the register is kept as two 16-bit halves <<hi, lo>>.
CrcShift(r) ==
    LET hi == r[1]
        lo == r[2]
        sh == <<hi \div 2, (lo \div 2) + (hi % 2) * 32768>>
    IN  IF lo % 2 = 1
        THEN <<XorBits(sh[1], 60856, 16), XorBits(sh[2], 33568, 16)>>  \* 0xEDB88320
        ELSE sh

RECURSIVE CrcRounds(_, _)
CrcRounds(r, k) == IF k = 0 THEN r ELSE CrcRounds(CrcShift(r), k - 1)

RECURSIVE CrcUpdate(_, _)
CrcUpdate(r, bs) ==
    IF bs = <<>> THEN r
    ELSE CrcUpdate(CrcRounds(<<r[1], XorBits(r[2], Head(bs), 16)>>, 8), Tail(bs))

\* struct.pack('<I', zlib.crc32(raw) & 0xFFFFFFFF)
Crc32LE(raw) ==
    LET r  == CrcUpdate(<<65535, 65535>>, raw)
        hi == 65535 - r[1]
        lo == 65535 - r[2]
    IN  <<lo % 256, lo \div 256, hi % 256, hi \div 256>>

\* lz4.block.compress(raw, store_size=False).  Inputs shorter than LZ4's
\* minimum match-search length (13 bytes) are emitted as one literal run:
\* a token carrying the literal count in its high nibble, then the bytes.
lz4_block_compress(raw) == <<Len(raw) * 16>> \o raw

(***************************************************************************)
(* The file object: reads stop at the end of the file, a write past the    *)
(* end fills the gap with zero bytes, an empty write changes nothing.      *)
(***************************************************************************)
ReadAt(f, pos, n) == SubSeq(f, pos + 1, Min(pos + n, Len(f)))

WriteAt(f, pos, data) ==
    IF data = <<>> THEN f
    ELSE LET g == IF pos > Len(f) THEN f \o Zeros(pos - Len(f)) ELSE f
         IN  SubSeq(g, 1, pos) \o data \o SubSeq(g, pos + Len(data) + 1, Len(g))

\* Mutant of TruncateAt: the file is never shortened.
TruncateAt_keep_tail(f, n) == IF n <= Len(f) THEN f ELSE f \o Zeros(n - Len(f))

TruncateAt(f, n) == IF n <= Len(f) THEN SubSeq(f, 1, n) ELSE f \o Zeros(n - Len(f))

(***************************************************************************)
(* build_index: the scan of the entry headers.                              *)
(***************************************************************************)
RECURSIVE ScanFrom(_, _, _)
ScanFrom(f, offset, acc) ==
    LET hdr == ReadAt(f, offset, HDR_LEN)
    IN  IF Len(hdr) < HDR_LEN THEN acc
        ELSE LET name_len   == UnpackLE(SubSeq(hdr, 1, 2))
                 comp_size  == UnpackLE(SubSeq(hdr, 3, 10))
                 name_bytes == ReadAt(f, offset + HDR_LEN, name_len)
             IN  IF Len(name_bytes) < name_len THEN acc
                 ELSE ScanFrom(f, offset + HDR_LEN + name_len + comp_size,
                               Append(acc, [name       |-> Utf8Decode(name_bytes),
                                            offset     |-> offset,
                                            total_size |-> HDR_LEN + name_len + comp_size]))

\* Mutant of build_index: the index is returned in name order, not physical order.
build_index_by_name(f) ==
    LET found == ScanFrom(f, SIG_LEN, <<>>)
        names == Sorted({found[k].name : k \in 1..Len(found)})
    IN  [k \in 1..Len(names) |-> CHOOSE e \in SeqToSet(found) : e.name = names[k]]

SignatureOk(f) == ReadAt(f, 0, SIG_LEN) = SIG

build_index(f) == ScanFrom(f, SIG_LEN, <<>>)

(***************************************************************************)
(* collect_local_files: the patch directory is a set of top-level folders  *)
(* and a map from file paths (sequences of components) to contents.        *)
(***************************************************************************)
\* os.path.relpath(full, base_dir).replace('/', '\\')
RECURSIVE RelName(_)
RelName(path) ==
    IF Len(path) = 1 THEN path[1]
    ELSE path[1] \o <<BACKSLASH>> \o RelName(Tail(path))

collect_local_files(dirs, tree, folders) ==
    LET found == {p \in DOMAIN tree :
                    \E k \in 1..Len(folders) : folders[k] \in dirs /\ p[1] = folders[k]}
        names == {RelName(p) : p \in found}
    IN  [nm \in names |-> CHOOSE p \in found : RelName(p) = nm]

\* Mutant of AffectedPrefixes: every configured folder counts, present or not.
AffectedPrefixes_all(dirs, folders) ==
    {folders[k] \o <<BACKSLASH>> : k \in 1..Len(folders)}

AffectedPrefixes(dirs, folders) ==
    {folders[k] \o <<BACKSLASH>> : k \in {j \in 1..Len(folders) : folders[j] \in dirs}}

\* Mutant of is_affected: equality in place of startswith.
is_affected_exact(name, prefixes) == name \in prefixes

is_affected(name, prefixes) == \E p \in prefixes : StartsWith(name, p)

(***************************************************************************)
(* copy_block: chunked low-to-high copy inside one file.                    *)
(***************************************************************************)
RECURSIVE CopyLoop(_, _, _, _, _, _)
CopyLoop(f, src, dst, size, copied, chunk_size) ==
    IF copied >= size THEN f
    ELSE LET n    == Min(chunk_size, size - copied)
             data == ReadAt(f, src + copied, n)
         IN  CopyLoop(WriteAt(f, dst + copied, data), src, dst, size, copied + n, chunk_size)

\* Mutant of copy_block: every chunk is read from src, without `+ copied`.
RECURSIVE CopyLoopStuck(_, _, _, _, _, _)
CopyLoopStuck(f, src, dst, size, copied, chunk_size) ==
    IF copied >= size THEN f
    ELSE LET n    == Min(chunk_size, size - copied)
             data == ReadAt(f, src, n)
         IN  CopyLoopStuck(WriteAt(f, dst + copied, data), src, dst, size, copied + n, chunk_size)

copy_block_stuck(f, src, dst, size, chunk_size) ==
    IF src = dst \/ size = 0 THEN f
    ELSE CopyLoopStuck(f, src, dst, size, 0, chunk_size)

copy_block(f, src, dst, size, chunk_size) ==
    IF src = dst \/ size = 0 THEN f
    ELSE CopyLoop(f, src, dst, size, 0, chunk_size)

(***************************************************************************)
(* write_new_entry: the record written for a local file.                    *)
(***************************************************************************)
MP4 == <<46, 109, 112, 52>>     \* ".mp4"

EntryBody(name, raw) ==
    IF EndsWith(Lower(name), MP4) THEN [flags |-> 3, body |-> raw]
    ELSE LET comp == lz4_block_compress(raw)
         IN  IF Len(comp) < Len(raw) THEN [flags |-> 0, body |-> comp]
             ELSE [flags |-> 1, body |-> raw]

EntryRecord(name, raw) ==
    LET nb == Utf8Encode(name)
        fb == EntryBody(name, raw)
    IN  PackLE(Len(nb), 2) \o PackLE(Len(fb.body), 8) \o PackLE(Len(raw), 8)
        \o PackLE(fb.flags, 1) \o Crc32LE(raw)
        \o nb \o fb.body

\* The value write_new_entry returns.
EntryWritten(name, raw) == HDR_LEN + Len(Utf8Encode(name)) + Len(EntryBody(name, raw).body)

(***************************************************************************)
(* Inputs: archives, patch directories, answers.                            *)
(***************************************************************************)
RawA  == <<65>>          \* b"A"
RawBC == <<66, 67>>      \* b"BC"

NameDataA  == DATA \o <<BACKSLASH, 97>>           \* data\a
NameFontX  == FONT \o <<BACKSLASH, 120>>          \* font\x
NameImageI == IMAGE \o <<BACKSLASH, 105>>         \* image\i
NameImageE == IMAGE \o <<BACKSLASH, 233>>         \* image\e-acute (two UTF-8 bytes)

\* What an archive may hold: (name, content) of the file an entry was packed from.
EntryChoices ==
    { [name |-> NameDataA,  raw |-> RawA],
      [name |-> NameFontX,  raw |-> RawBC],
      [name |-> NameImageI, raw |-> RawA],
      [name |-> NameImageE, raw |-> RawBC] }

\* Entry names are unique within an archive.
Archives ==
    {es \in UNION {[1..n -> EntryChoices] : n \in 0..MaxEntries} :
        \A a, b \in 1..Len(es) : a # b => es[a].name # es[b].name}

ArchiveBytes(es) == SIG \o Cat([k \in 1..Len(es) |-> EntryRecord(es[k].name, es[k].raw)])

\* Files the patch directory may hold, with the contents each may have.
PathDataA  == <<DATA, <<97>>>>                    \* data/a
PathDataSC == <<DATA, <<115>>, <<99>>>>           \* data/s/c
PathFontX  == <<FONT, <<120>>>>                   \* font/x

LocalPaths == {PathDataA, PathDataSC, PathFontX}

LocalContents(p) == IF p = PathDataA THEN {RawA, RawBC}
                    ELSE IF p = PathDataSC THEN {RawA}
                    ELSE {RawBC}

LocalTrees(dirs) ==
    {t \in UNION {[P -> {RawA, RawBC}] : P \in SUBSET LocalPaths} :
        \A p \in DOMAIN t : p[1] \in dirs /\ t[p] \in LocalContents(p)}

\* What the user may type at the prompt.
Answers == { <<121, 101, 115>>,          \* "yes"
             <<32, 89, 101, 115, 32>>,   \* " Yes "
             <<110, 111>> }              \* "no"
YES == <<121, 101, 115>>

ChunkSizes == {SmallChunk, CHUNK_SIZE}

\* A damaged archive: the last cut bytes are missing, or the signature is wrong.
Damaged(bytes, cut, badsig) ==
    LET t == SubSeq(bytes, 1, Len(bytes) - cut)
    IN  IF badsig THEN <<107>> \o Tail(t) ELSE t

(***************************************************************************)
(* State.                                                                   *)
(***************************************************************************)
VARIABLES
    kpk_exists,        \* os.path.isfile(KPK_PATH)
    file,              \* the bytes of the archive file
    local_dirs,        \* top-level folders present beside the script
    local_tree,        \* path -> content of the files under them
    chunk,             \* the copy window in effect
    pc,                \* position in patch()
    run,               \* number of the current invocation
    entries,           \* build_index's result
    local_files,       \* collect_local_files's result
    affected_prefixes,
    modified, deleted, added,
    ans,               \* the normalised answer
    write_pos, kept, idx,
    items, i, f_pos,   \* sorted(local_files.items()), its loop index, the file position
    arch0,             \* history: the entries the first archive was built from
    wellformed,        \* history: the first archive was not damaged
    orig,              \* history: the file when the current run began
    file1,             \* history: the file when the first run ended
    wrote,             \* history: the current run wrote to or truncated the file
    copies,            \* history: <<src, dst>> of the copy_block calls of the run
    appended,          \* history: the names written by the append pass of the run
    cb_src, cb_dst, cb_size, cb_copied,   \* the frame of copy_block while it runs
    cb_before,         \* history: the file when the copy_block call began
    dirty,             \* history: file positions written by the chunk writes of the pass
    stale              \* history: a chunk read covered a position of dirty

vars == <<kpk_exists, file, local_dirs, local_tree, chunk, pc, run, entries,
          local_files, affected_prefixes, modified, deleted, added, ans,
          write_pos, kept, idx, items, i, f_pos, arch0, wellformed, orig, file1,
          wrote, copies, appended,
          cb_src, cb_dst, cb_size, cb_copied, cb_before, dirty, stale>>

copyvars == <<cb_src, cb_dst, cb_size, cb_copied, cb_before, dirty, stale>>

inputs == <<kpk_exists, local_dirs, local_tree, chunk, arch0, wellformed>>

locals == <<entries, local_files, affected_prefixes, modified, deleted, added, ans,
            write_pos, kept, idx, items, i, f_pos>>

FreshLocals ==
    /\ entries = <<>>
    /\ local_files = <<>>
    /\ affected_prefixes = {}
    /\ modified = <<>>
    /\ deleted = <<>>
    /\ added = <<>>
    /\ ans = <<>>
    /\ write_pos = 0
    /\ kept = 0
    /\ idx = 0
    /\ items = <<>>
    /\ i = 0
    /\ f_pos = 0

NoCopy ==
    /\ cb_src = 0
    /\ cb_dst = 0
    /\ cb_size = 0
    /\ cb_copied = 0
    /\ cb_before = <<>>
    /\ dirty = {}
    /\ stale = FALSE

Init ==
    /\ NoCopy
    /\ \E es \in Archives, cut \in 0..MaxCut, badsig \in BOOLEAN, ex \in BOOLEAN :
          /\ cut > 0 => ~badsig
          /\ ~ex => (cut = 0 /\ ~badsig /\ es = <<>>)
          /\ kpk_exists = ex
          /\ arch0 = es
          /\ wellformed = (ex /\ cut = 0 /\ ~badsig)
          /\ file = IF ex THEN Damaged(ArchiveBytes(es), cut, badsig) ELSE <<>>
    /\ local_dirs \in SUBSET SeqToSet(PATCH_FOLDERS)
    /\ local_tree \in LocalTrees(local_dirs)
    /\ chunk \in ChunkSizes
    /\ pc = "start"
    /\ run = 1
    /\ FreshLocals
    /\ orig = file
    /\ file1 = <<>>
    /\ wrote = FALSE
    /\ copies = <<>>
    /\ appended = <<>>

history == <<orig, file1, wrote, copies, appended>>

(***************************************************************************)
(* patch(), step by step.                                                   *)
(***************************************************************************)
\* os.path.isfile(KPK_PATH), else sys.exit(1)
CheckKpk ==
    /\ pc = "start"
    /\ pc' = IF kpk_exists THEN "index" ELSE "exit_missing_kpk"
    /\ UNCHANGED <<inputs, copyvars, file, run, locals, history>>

\* entries = build_index(KPK_PATH); a wrong signature raises ValueError
BuildIndex ==
    /\ pc = "index"
    /\ IF SignatureOk(file)
       THEN /\ entries' = build_index(file)
            /\ pc' = "collect"
       ELSE /\ entries' = entries
            /\ pc' = "format_error"
    /\ UNCHANGED <<inputs, copyvars, file, run, local_files, affected_prefixes, modified, deleted,
                   added, ans, write_pos, kept, idx, items, i, f_pos, history>>

\* local_files, affected_prefixes; return when no patch folder exists
CollectLocal ==
    /\ pc = "collect"
    /\ local_files' = collect_local_files(local_dirs, local_tree, PATCH_FOLDERS)
    /\ affected_prefixes' = AffectedPrefixes(local_dirs, PATCH_FOLDERS)
    /\ pc' = IF affected_prefixes' = {} THEN "ret_no_folder" ELSE "diff"
    /\ UNCHANGED <<inputs, copyvars, file, run, entries, modified, deleted, added, ans, write_pos,
                   kept, idx, items, i, f_pos, history>>

\* Mutant of AnalyzeDiff: added is every local name, old ones included.
AnalyzeDiff_added_all ==
    /\ pc = "diff"
    /\ LET old_names == {entries[k].name :
                            k \in {j \in 1..Len(entries) :
                                      is_affected(entries[j].name, affected_prefixes)}}
           new_names == DOMAIN local_files
       IN  /\ modified' = Sorted(old_names \cap new_names)
           /\ deleted'  = Sorted(old_names \ new_names)
           /\ added'    = Sorted(new_names)
    /\ pc' = IF modified' = <<>> /\ deleted' = <<>> /\ added' = <<>>
             THEN "ret_no_change" ELSE "confirm"
    /\ UNCHANGED <<inputs, copyvars, file, run, entries, local_files, affected_prefixes, ans,
                   write_pos, kept, idx, items, i, f_pos, history>>

\* modified / deleted / added; return when all three are empty
AnalyzeDiff ==
    /\ pc = "diff"
    /\ LET old_names == {entries[k].name :
                            k \in {j \in 1..Len(entries) :
                                      is_affected(entries[j].name, affected_prefixes)}}
           new_names == DOMAIN local_files
       IN  /\ modified' = Sorted(old_names \cap new_names)
           /\ deleted'  = Sorted(old_names \ new_names)
           /\ added'    = Sorted(new_names \ old_names)
    /\ pc' = IF modified' = <<>> /\ deleted' = <<>> /\ added' = <<>>
             THEN "ret_no_change" ELSE "confirm"
    /\ UNCHANGED <<inputs, copyvars, file, run, entries, local_files, affected_prefixes, ans,
                   write_pos, kept, idx, items, i, f_pos, history>>

\* Mutant of Confirm: the answer is read but not tested.
Confirm_any_answer ==
    /\ pc = "confirm"
    /\ \E typed \in Answers : ans' = Lower(Strip(typed))
    /\ pc' = "compact"
    /\ write_pos' = SIG_LEN
    /\ kept' = 0
    /\ idx' = 1
    /\ UNCHANGED <<inputs, copyvars, file, run, entries, local_files, affected_prefixes, modified,
                   deleted, added, items, i, f_pos, history>>

\* ans = input(...).strip().lower(); anything but 'yes' cancels.
\* On 'yes' the file is opened r+b and the compaction pass begins.
Confirm ==
    /\ pc = "confirm"
    /\ \E typed \in Answers : ans' = Lower(Strip(typed))
    /\ IF ans' # YES
       THEN /\ pc' = "cancelled"
            /\ UNCHANGED <<write_pos, kept, idx>>
       ELSE /\ pc' = "compact"
            /\ write_pos' = SIG_LEN
            /\ kept' = 0
            /\ idx' = 1
    /\ UNCHANGED <<inputs, copyvars, file, run, entries, local_files, affected_prefixes, modified,
                   deleted, added, items, i, f_pos, history>>

\* One iteration of `for entry in entries` (Phase A).
CompactStep ==
    /\ pc = "compact"
    /\ idx <= Len(entries)
    /\ LET entry == entries[idx]
           src   == entry.offset
           sz    == entry.total_size
       IN  IF is_affected(entry.name, affected_prefixes)
           THEN UNCHANGED <<file, write_pos, kept, wrote, copies>>
           ELSE /\ IF write_pos < src
                   THEN /\ file' = copy_block(file, src, write_pos, sz, chunk)
                        /\ copies' = Append(copies, <<src, write_pos>>)
                        /\ wrote' = TRUE
                   ELSE UNCHANGED <<file, copies, wrote>>
                /\ write_pos' = write_pos + sz
                /\ kept' = kept + 1
    /\ idx' = idx + 1
    /\ UNCHANGED <<inputs, copyvars, pc, run, entries, local_files, affected_prefixes, modified,
                   deleted, added, ans, items, i, f_pos, orig, file1, appended>>

\* Mutant of BeginAppend: only the added names are written, not the modified ones.
BeginAppend_added_only ==
    /\ pc = "compact"
    /\ idx > Len(entries)
    /\ f_pos' = write_pos
    /\ items' = [k \in 1..Len(added) |-> <<added[k], local_files[added[k]]>>]
    /\ i' = 0
    /\ pc' = "append"
    /\ UNCHANGED <<inputs, copyvars, file, run, entries, local_files, affected_prefixes, modified,
                   deleted, added, ans, write_pos, kept, idx, history>>

\* Mutant of BeginAppend: local_files.items() is iterated without sorted().
BeginAppend_unsorted ==
    /\ pc = "compact"
    /\ idx > Len(entries)
    /\ f_pos' = write_pos
    /\ items' = LET names == Sorted(DOMAIN local_files)
                    n     == Len(names)
                IN  [k \in 1..n |-> <<names[n + 1 - k], local_files[names[n + 1 - k]]>>]
    /\ i' = 0
    /\ pc' = "append"
    /\ UNCHANGED <<inputs, copyvars, file, run, entries, local_files, affected_prefixes, modified,
                   deleted, added, ans, write_pos, kept, idx, history>>

\* The loop is over: f.seek(write_pos), and Phase B iterates sorted(local_files.items()).
BeginAppend ==
    /\ pc = "compact"
    /\ idx > Len(entries)
    /\ f_pos' = write_pos
    /\ items' = LET names == Sorted(DOMAIN local_files)
                IN  [k \in 1..Len(names) |-> <<names[k], local_files[names[k]]>>]
    /\ i' = 0
    /\ pc' = "append"
    /\ UNCHANGED <<inputs, copyvars, file, run, entries, local_files, affected_prefixes, modified,
                   deleted, added, ans, write_pos, kept, idx, history>>

\* write_pos += write_new_entry(f, name, path)
AppendStep ==
    /\ pc = "append"
    /\ i < Len(items)
    /\ LET name == items[i + 1][1]
           raw  == local_tree[items[i + 1][2]]
           rec  == EntryRecord(name, raw)
       IN  /\ file' = WriteAt(file, f_pos, rec)
           /\ f_pos' = f_pos + Len(rec)
           /\ write_pos' = write_pos + EntryWritten(name, raw)
           /\ appended' = Append(appended, name)
    /\ i' = i + 1
    /\ wrote' = TRUE
    /\ UNCHANGED <<inputs, copyvars, pc, run, entries, local_files, affected_prefixes, modified,
                   deleted, added, ans, kept, idx, items, orig, file1, copies>>

\* f.flush(); f.truncate(write_pos) (Phase C), then the report.
Truncate ==
    /\ pc = "append"
    /\ i >= Len(items)
    /\ file' = TruncateAt(file, write_pos)
    /\ wrote' = TRUE
    /\ file1' = IF run = 1 THEN file' ELSE file1
    /\ pc' = "done"
    /\ UNCHANGED <<inputs, copyvars, run, locals, orig, copies, appended>>

\* The tool is run once more on the archive it has just rewritten.
RunAgain ==
    /\ pc = "done"
    /\ run < MaxRuns
    /\ run' = run + 1
    /\ pc' = "start"
    /\ entries' = <<>>
    /\ local_files' = <<>>
    /\ affected_prefixes' = {}
    /\ modified' = <<>>
    /\ deleted' = <<>>
    /\ added' = <<>>
    /\ ans' = <<>>
    /\ write_pos' = 0
    /\ kept' = 0
    /\ idx' = 0
    /\ items' = <<>>
    /\ i' = 0
    /\ f_pos' = 0
    /\ orig' = file
    /\ wrote' = FALSE
    /\ copies' = <<>>
    /\ appended' = <<>>
    /\ UNCHANGED <<inputs, copyvars, file, file1>>

Next ==
    \/ CheckKpk
    \/ BuildIndex
    \/ CollectLocal
    \/ AnalyzeDiff
    \/ Confirm
    \/ CompactStep
    \/ BeginAppend
    \/ AppendStep
    \/ Truncate
    \/ RunAgain

Spec == Init /\ [][Next]_vars

(***************************************************************************)
(* Vocabulary of the properties.  The first run starts from the archive    *)
(* built from arch0, so what each entry was before the run is known        *)
(* without reading the file back.                                          *)
(***************************************************************************)
\* The prefixes a run manages: one per configured folder present locally.
Managed(name) ==
    \E k \in 1..Len(PATCH_FOLDERS) :
        /\ PATCH_FOLDERS[k] \in local_dirs
        /\ StartsWith(name, PATCH_FOLDERS[k] \o <<BACKSLASH>>)

Retained0 == SelectSeq(arch0, LAMBDA e : ~Managed(e.name))

Retained0Bytes == Cat([k \in 1..Len(Retained0) |-> EntryRecord(Retained0[k].name, Retained0[k].raw)])

LocalNames == {RelName(p) : p \in DOMAIN local_tree}

LocalPathOf(nm) == CHOOSE p \in DOMAIN local_tree : RelName(p) = nm

LocalRecord(nm) == EntryRecord(nm, local_tree[LocalPathOf(nm)])

\* A confirmed first run on a well-formed archive has run to completion.
Completed1 == pc = "done" /\ run = 1 /\ wellformed

RECURSIVE SumOver(_)
SumOver(ns) == IF ns = <<>> THEN 0 ELSE Head(ns) + SumOver(Tail(ns))

StrictlySorted(ns) == \A k \in 1..(Len(ns) - 1) : LexLess(ns[k], ns[k + 1])

(***************************************************************************)
(* C1: after a confirmed repack of a well-formed archive has completed,    *)
(* the entries whose name starts with no managed prefix stand right after  *)
(* the signature, in their original relative order, each with the bytes    *)
(* (header, name, body) it had before.                                     *)
(***************************************************************************)
C1_RetainedPreserved ==
    Completed1 =>
        /\ ReadAt(file, 0, SIG_LEN) = SIG
        /\ ReadAt(file, SIG_LEN, Len(Retained0Bytes)) = Retained0Bytes

\* Two retained entries, both moved forward through a window smaller than a record.
C1_Witness ==
    /\ Completed1
    /\ Len(Retained0) >= 2
    /\ Len(copies) >= 2
    /\ chunk = SmallChunk

(***************************************************************************)
(* C2: after a confirmed repack has completed, the names of the archive's  *)
(* entries are exactly the original unmanaged names and the names of the   *)
(* local files; each local file has exactly one entry, whose record is the *)
(* encoding of the local content; a managed original entry without a local *)
(* file is gone.                                                           *)
(***************************************************************************)
C2_NamesAfterRepack ==
    Completed1 =>
        LET index == build_index(file)
            names == [k \in 1..Len(index) |-> index[k].name]
        IN  /\ SignatureOk(file)
            /\ SIG_LEN + SumOver([k \in 1..Len(index) |-> index[k].total_size]) = Len(file)
            /\ SeqToSet(names) = {e.name : e \in SeqToSet(Retained0)} \cup LocalNames
            /\ \A nm \in LocalNames :
                  /\ Cardinality({k \in 1..Len(index) : names[k] = nm}) = 1
                  /\ \A k \in 1..Len(index) :
                        names[k] = nm =>
                           ReadAt(file, index[k].offset, index[k].total_size) = LocalRecord(nm)
            /\ \A k \in 1..Len(arch0) :
                  (Managed(arch0[k].name) /\ arch0[k].name \notin LocalNames)
                     => arch0[k].name \notin SeqToSet(names)

\* One run that replaces an entry, removes one and adds one.
C2_Witness ==
    /\ Completed1
    /\ modified # <<>>
    /\ deleted # <<>>
    /\ added # <<>>

(***************************************************************************)
(* C3: after repack the archive is the signature, the retained entries in  *)
(* their original order, then the entries of the local files in            *)
(* lexicographic order of name; the append pass wrote exactly the names of *)
(* modified and added, in that order.                                      *)
(***************************************************************************)
C3_OrderContract ==
    Completed1 =>
        /\ file = SIG \o Retained0Bytes \o Cat([k \in 1..Len(appended) |-> LocalRecord(appended[k])])
        /\ SeqToSet(appended) = SeqToSet(modified) \cup SeqToSet(added)
        /\ Len(appended) = Len(modified) + Len(added)
        /\ StrictlySorted(appended)

\* Retained entries followed by three appended ones, a modified one among them.
C3_Witness ==
    /\ Completed1
    /\ Len(appended) = 3
    /\ Retained0 # <<>>
    /\ modified # <<>>

(***************************************************************************)
(* C4: after repack the file is exactly as long as the signature, the      *)
(* retained records and the appended records together, so nothing of the   *)
(* old archive follows the last appended record.                           *)
(***************************************************************************)
C4_ExactLength ==
    Completed1 =>
        LET keptSizes == [k \in 1..Len(entries) |->
                             IF Managed(entries[k].name) THEN 0 ELSE entries[k].total_size]
            newSizes  == [k \in 1..Len(appended) |-> Len(LocalRecord(appended[k]))]
        IN  Len(file) = SIG_LEN + SumOver(keptSizes) + SumOver(newSizes)

\* The new archive is shorter than the old one although entries were appended.
C4_Witness ==
    /\ Completed1
    /\ appended # <<>>
    /\ Len(file) < Len(orig)

C4_WitnessLonger ==
    /\ Completed1
    /\ Len(file) > Len(orig)

(***************************************************************************)
(* C5: a run writes to the archive only after a non-empty diff and the     *)
(* answer 'yes'; a run that ends because no managed folder exists, because *)
(* the diff is empty or because the answer is not 'yes' leaves the file's  *)
(* bytes and length as they were.                                          *)
(***************************************************************************)
C5_NoWriteWithoutConfirmation ==
    /\ pc \in {"ret_no_folder", "ret_no_change", "cancelled"} => (~wrote /\ file = orig)
    /\ (wrote \/ file # orig) =>
          /\ ans = YES
          /\ modified # <<>> \/ deleted # <<>> \/ added # <<>>

\* The user declined a run that would have changed the archive.
C5_Witness ==
    /\ pc = "cancelled"
    /\ entries # <<>>
    /\ deleted # <<>>
    /\ ans # YES

(***************************************************************************)
(* C6: a second confirmed repack with the same patch directory leaves the  *)
(* archive byte-identical to what the first one produced.                  *)
(***************************************************************************)
C6_Idempotent ==
    (run >= 2 /\ pc = "done" /\ wellformed) => file = file1

\* The second run went through compaction and append again.
C6_Witness ==
    /\ run = 2
    /\ pc = "done"
    /\ wellformed
    /\ kept > 0
    /\ Len(appended) >= 2

(***************************************************************************)
(* C7 as stated: on the second run the diff is empty, the run takes the    *)
(* no-change path and writes nothing.                                      *)
(***************************************************************************)
C7_SecondDiffEmpty ==
    (run >= 2 /\ wellformed /\ pc \notin {"start", "index", "collect", "diff"}) =>
        /\ modified = <<>> /\ deleted = <<>> /\ added = <<>>
        /\ pc = "ret_no_change"
        /\ ~wrote

(***************************************************************************)
(* C7 amended: on the second run deleted and added are empty and modified  *)
(* is exactly the names of the local files (the diff compares names, not   *)
(* contents); the run takes the no-change path, writing nothing, exactly   *)
(* when there is no local file under the managed folders.                  *)
(***************************************************************************)
C7_SecondDiffIsModifiedOnly ==
    (run >= 2 /\ wellformed /\ pc \notin {"start", "index", "collect", "diff"}) =>
        /\ deleted = <<>>
        /\ added = <<>>
        /\ SeqToSet(modified) = LocalNames
        /\ Len(modified) = Cardinality(LocalNames)
        /\ (pc = "ret_no_change") <=> (LocalNames = {})
        /\ pc = "ret_no_change" => (~wrote /\ file = file1)

\* The second run found every local file "modified" and asks for confirmation.
C7_Witness ==
    /\ run = 2
    /\ wellformed
    /\ pc = "confirm"
    /\ Len(modified) >= 2

(***************************************************************************)
(* C8 as stated: an archive whose signature is wrong, or whose last header *)
(* declares more name or body bytes than the file holds, makes the scan    *)
(* fail: the run ends in a format error, the short entry is not indexed    *)
(* and the file is untouched.                                              *)
(***************************************************************************)
\* Bytes missing at the end of the first archive.
MissingBytes == Len(ArchiveBytes(arch0)) - Len(orig)

\* The last header is complete but its name or body is not.
HeaderOverrun ==
    /\ arch0 # <<>>
    /\ MissingBytes > 0
    /\ MissingBytes <= Len(EntryRecord(arch0[Len(arch0)].name, arch0[Len(arch0)].raw)) - HDR_LEN

C8_FormatErrorAborts ==
    (run = 1 /\ kpk_exists /\ (~SignatureOk(orig) \/ HeaderOverrun)
       /\ pc \notin {"start", "index"}) =>
        /\ pc = "format_error"
        /\ HeaderOverrun => Len(entries) < Len(arch0)
        /\ ~wrote
        /\ file = orig

\* The part of C8 the code does keep: a wrong signature ends the run untouched.
C8_BadSignatureAborts ==
    (run = 1 /\ kpk_exists /\ ~SignatureOk(orig) /\ pc \notin {"start", "index"}) =>
        (pc = "format_error" /\ file = orig /\ ~wrote /\ entries = <<>>)

(***************************************************************************)
(* C9 as stated: when the archive file is absent, or any configured folder *)
(* is absent from the patch directory, the run ends before it mutates the  *)
(* archive and does not compact and rewrite for the remaining folders.     *)
(***************************************************************************)
SomeFolderAbsent == \E k \in 1..Len(PATCH_FOLDERS) : PATCH_FOLDERS[k] \notin local_dirs

NoFolderPresent == \A k \in 1..Len(PATCH_FOLDERS) : PATCH_FOLDERS[k] \notin local_dirs

C9_AnyMissingInputAborts ==
    (~kpk_exists \/ SomeFolderAbsent) =>
        /\ pc \notin {"compact", "append", "done"}
        /\ ~wrote
        /\ file = orig

(***************************************************************************)
(* C9 amended: when the archive file is absent, or none of the configured  *)
(* folders is present, the run ends before any mutation; when only some    *)
(* are absent the run goes on and manages the prefixes of those present.   *)
(***************************************************************************)
C9_MissingInputAborts ==
    /\ ~kpk_exists => (pc \in {"start", "exit_missing_kpk"} /\ ~wrote /\ file = orig)
    /\ NoFolderPresent =>
          /\ pc \notin {"diff", "confirm", "compact", "append", "done",
                        "ret_no_change", "cancelled"}
          /\ ~wrote
          /\ file = orig
    /\ pc \in {"diff", "confirm", "compact", "append", "done"} =>
          affected_prefixes = {PATCH_FOLDERS[k] \o <<BACKSLASH>> :
                                 k \in {j \in 1..Len(PATCH_FOLDERS) : PATCH_FOLDERS[j] \in local_dirs}}

\* An archive with entries, and no patch folder beside the script.
C9_Witness ==
    /\ pc = "ret_no_folder"
    /\ entries # <<>>
    /\ NoFolderPresent

(***************************************************************************)
(* C10: in the compaction pass write_pos starts at the signature length,   *)
(* never decreases, and is at most the offset of the entry being visited,  *)
(* whether that entry is kept or skipped; every copy_block call copies to  *)
(* a destination strictly below its source.                                *)
(***************************************************************************)
C10_CursorState ==
    /\ (pc = "compact" /\ idx = 1) => write_pos = 13
    /\ (pc = "compact" /\ idx <= Len(entries)) => write_pos <= entries[idx].offset
    /\ \A k \in 1..Len(copies) : copies[k][2] < copies[k][1]

C10_CursorStep ==
    (pc = "compact" /\ pc' \in {"compact", "append"}) => write_pos' >= write_pos

C10_WriteCursorBelowOffset == []C10_CursorState /\ [][C10_CursorStep]_vars

\* An entry is visited while a gap is open, a copy having already been made.
C10_Witness ==
    /\ pc = "compact"
    /\ idx <= Len(entries)
    /\ write_pos < entries[idx].offset
    /\ copies # <<>>
    /\ write_pos > SIG_LEN

(***************************************************************************)
(* The compaction pass on its own, copy_block taking one step per chunk.   *)
(* The file is the signature followed by records of any sizes, each        *)
(* managed or not; every byte of the body carries its own position, so a   *)
(* byte that lands in the wrong place shows.                               *)
(***************************************************************************)
RECURSIVE IndexOf(_, _, _)
IndexOf(sizes, managed, offset) ==
    IF sizes = <<>> THEN <<>>
    ELSE <<[name       |-> IF Head(managed) THEN NameDataA ELSE NameImageI,
            offset     |-> offset,
            total_size |-> Head(sizes)]>>
         \o IndexOf(Tail(sizes), Tail(managed), offset + Head(sizes))

InitCopy ==
    /\ \E n \in 1..MaxRecords :
         \E sizes \in [1..n -> 1..MaxRecordSize], managed \in [1..n -> BOOLEAN] :
            /\ entries = IndexOf(sizes, managed, SIG_LEN)
            /\ file = SIG \o [k \in 1..SumOver(sizes) |-> SIG_LEN + k]
    /\ chunk \in 1..MaxWindow
    /\ kpk_exists = TRUE
    /\ local_dirs = {DATA}
    /\ local_tree = <<>>
    /\ arch0 = <<>>
    /\ wellformed = TRUE
    /\ pc = "compact"
    /\ run = 1
    /\ local_files = <<>>
    /\ affected_prefixes = AffectedPrefixes(local_dirs, PATCH_FOLDERS)
    /\ modified = <<>>
    /\ deleted = <<>>
    /\ added = <<>>
    /\ ans = YES
    /\ write_pos = SIG_LEN
    /\ kept = 0
    /\ idx = 1
    /\ items = <<>>
    /\ i = 0
    /\ f_pos = 0
    /\ orig = file
    /\ file1 = <<>>
    /\ wrote = FALSE
    /\ copies = <<>>
    /\ appended = <<>>
    /\ NoCopy

passframe == <<inputs, run, entries, local_files, affected_prefixes, modified, deleted,
               added, ans, items, i, f_pos, orig, file1, appended>>

\* One iteration of `for entry in entries` up to the call of copy_block.
CompactVisit ==
    /\ pc = "compact"
    /\ idx <= Len(entries)
    /\ LET entry == entries[idx]
           src   == entry.offset
           sz    == entry.total_size
       IN  IF is_affected(entry.name, affected_prefixes)
           THEN /\ idx' = idx + 1
                /\ UNCHANGED <<pc, write_pos, kept, copies, cb_src, cb_dst, cb_size,
                               cb_copied, cb_before>>
           ELSE IF write_pos < src /\ ~(src = write_pos \/ sz = 0)
           THEN /\ pc' = "copy_block"
                /\ cb_src' = src
                /\ cb_dst' = write_pos
                /\ cb_size' = sz
                /\ cb_copied' = 0
                /\ cb_before' = file
                /\ copies' = Append(copies, <<src, write_pos>>)
                /\ UNCHANGED <<write_pos, kept, idx>>
           ELSE /\ write_pos' = write_pos + sz
                /\ kept' = kept + 1
                /\ idx' = idx + 1
                /\ UNCHANGED <<pc, copies, cb_src, cb_dst, cb_size, cb_copied, cb_before>>
    /\ UNCHANGED <<passframe, file, wrote, dirty, stale>>

\* Mutant of CopyChunk: the chunks are taken from the high end of the record down.
CopyChunk_high_to_low ==
    /\ pc = "copy_block"
    /\ cb_copied < cb_size
    /\ LET n    == Min(chunk, cb_size - cb_copied)
           at   == cb_size - cb_copied - n
           data == ReadAt(file, cb_src + at, n)
       IN  /\ file' = WriteAt(file, cb_dst + at, data)
           /\ cb_copied' = cb_copied + n
           /\ stale' = (stale \/ \E p \in (cb_src + at + 1)..(cb_src + at + n) : p \in dirty)
           /\ dirty' = dirty \cup ((cb_dst + at + 1)..(cb_dst + at + Len(data)))
    /\ wrote' = TRUE
    /\ UNCHANGED <<passframe, pc, write_pos, kept, idx, copies, cb_src, cb_dst, cb_size,
                   cb_before>>

\* One iteration of copy_block's `while copied < size`.
CopyChunk ==
    /\ pc = "copy_block"
    /\ cb_copied < cb_size
    /\ LET n    == Min(chunk, cb_size - cb_copied)
           data == ReadAt(file, cb_src + cb_copied, n)
       IN  /\ file' = WriteAt(file, cb_dst + cb_copied, data)
           /\ cb_copied' = cb_copied + n
           /\ stale' = (stale \/ \E p \in (cb_src + cb_copied + 1)..(cb_src + cb_copied + n) :
                                     p \in dirty)
           /\ dirty' = dirty \cup ((cb_dst + cb_copied + 1)..(cb_dst + cb_copied + Len(data)))
    /\ wrote' = TRUE
    /\ UNCHANGED <<passframe, pc, write_pos, kept, idx, copies, cb_src, cb_dst, cb_size,
                   cb_before>>

\* copy_block returns; the iteration ends with write_pos += sz, kept += 1.
CopyReturn ==
    /\ pc = "copy_block"
    /\ cb_copied >= cb_size
    /\ write_pos' = write_pos + entries[idx].total_size
    /\ kept' = kept + 1
    /\ idx' = idx + 1
    /\ pc' = "compact"
    /\ UNCHANGED <<passframe, file, wrote, copies, cb_src, cb_dst, cb_size, cb_copied,
                   cb_before, dirty, stale>>

NextCopy ==
    \/ CompactVisit
    \/ CopyChunk
    \/ CopyReturn

SpecCopy == InitCopy /\ [][NextCopy]_vars

(***************************************************************************)
(* C11: in the chunked low-to-high copy, called with dst below src, no     *)
(* chunk read covers a position that an earlier chunk write of the pass    *)
(* has written, whatever the record size, the window and the overlap of    *)
(* source and destination; so what has been written at dst so far is what  *)
(* stood at src before the call, and once the loop is over [dst, dst+size) *)
(* holds the bytes [src, src+size) held before the call.                   *)
(***************************************************************************)
C11_ChunkedCopyReadsNoOverwrittenByte ==
    /\ ~stale
    /\ pc = "copy_block" =>
          /\ cb_dst <= cb_src
          /\ ReadAt(file, cb_dst, cb_copied) = ReadAt(cb_before, cb_src, cb_copied)
          /\ cb_copied >= cb_size =>
                /\ ReadAt(file, cb_dst, cb_size) = ReadAt(cb_before, cb_src, cb_size)
                /\ file = copy_block(cb_before, cb_src, cb_dst, cb_size, chunk)

\* The second copy of a pass is over: source and destination overlapped, the
\* record took several chunks and the window was wider than the gap.
C11_Witness ==
    /\ pc = "copy_block"
    /\ cb_copied >= cb_size
    /\ Len(copies) >= 2
    /\ cb_src - cb_dst < cb_size
    /\ chunk < cb_size
    /\ chunk > cb_src - cb_dst

====
